---- MODULE Spec2Model ----
(***************************************************************************)
(* aws-list (src/main.go): one run of main, the role-file loop, Sync and   *)
(* amiCreation with its process-wide cache.  The AWS provider is the       *)
(* environment: every call to it answers nondeterministically.             *)
(*                                                                         *)
(* Strings the program takes apart (role-file lines, creation dates) are   *)
(* sequences of one-character strings; identifiers it only copies and      *)
(* compares (instance ids, image ids, tag keys and values) are strings.    *)
(* An instant is [d, ms]: days since 0000-01-01 and milliseconds of day.   *)
(***************************************************************************)
EXTENDS Integers, Sequences, FiniteSets, TLC

\* Longest role file (lines the scanner delivers).
MaxLines == 2
\* Most instances in one DescribeInstances response (no-role mode).
MaxInst == 2
\* Most instances in one DescribeInstances response (role-list mode).
MaxRoleInst == 1
\* Last reading of the wall clock (readings are numbered 0..MaxTick).
MaxTick == 1

-----------------------------------------------------------------------------
(* Strings *)

DateJan01 == <<"2","0","2","4","-","0","1","-","0","1","T","0","0",":","0","0",":","0","0",".","0","0","0","Z">>
DateFuture == <<"2","0","2","4","-","0","1","-","1","2","T","1","2",":","0","0",":","0","0",".","0","0","0","Z">>
DateOld == <<"1","7","0","0","-","0","1","-","0","1","T","0","0",":","0","0",":","0","0",".","0","0","0","Z">>
DateNoMillis == <<"2","0","2","4","-","0","1","-","0","1","T","0","0",":","0","0",":","0","0","Z">>

LineComment == <<"#","a",":","b",":","i",":",":","9",":","r">>
LineRoleA == <<"a",":","b",":","i",":",":","1",":","r">>
LineRoleB == <<"a",":","b",":","i",":",":","2",":","r",":","x">>
LineBlank == <<>>

\* strings.HasPrefix(s, prefix)
HasPrefix(s, prefix) ==
    Len(s) >= Len(prefix) /\ SubSeq(s, 1, Len(prefix)) = prefix

\* strings.Split(s, sep) for a one-character separator: the fields between
\* the separators, one more than there are separators (so <<"">> for "").
RECURSIVE Split(_, _)
Split(s, sep) ==
    IF \E i \in 1..Len(s) : s[i] = sep
    THEN LET i == CHOOSE j \in 1..Len(s) :
                    s[j] = sep /\ \A k \in 1..(j - 1) : s[k] # sep
         IN  <<SubSeq(s, 1, i - 1)>> \o Split(SubSeq(s, i + 1, Len(s)), sep)
    ELSE <<s>>

Digits == {"0", "1", "2", "3", "4", "5", "6", "7", "8", "9"}

DigitVal(c) ==
    CASE c = "0" -> 0 [] c = "1" -> 1 [] c = "2" -> 2 [] c = "3" -> 3
      [] c = "4" -> 4 [] c = "5" -> 5 [] c = "6" -> 6 [] c = "7" -> 7
      [] c = "8" -> 8 [] c = "9" -> 9

\* The number written by the n digits of s that start at position i.
RECURSIVE Num(_, _, _)
Num(s, i, n) ==
    IF n = 0 THEN 0 ELSE Num(s, i, n - 1) * 10 + DigitVal(s[i + n - 1])

-----------------------------------------------------------------------------
(* Time *)

MsPerDay == 24 * 60 * 60 * 1000

IsLeap(y) == y % 4 = 0 /\ (y % 100 # 0 \/ y % 400 = 0)

DaysIn(m, y) ==
    IF m = 2 THEN (IF IsLeap(y) THEN 29 ELSE 28)
    ELSE IF m \in {4, 6, 9, 11} THEN 30 ELSE 31

\* Days from 0000-01-01 to the first day of year y (year 0 is a leap year).
DaysBeforeYear(y) ==
    365 * y + ((y + 3) \div 4) - ((y + 99) \div 100) + ((y + 399) \div 400)

RECURSIVE DaysBeforeMonth(_, _)
DaysBeforeMonth(m, y) ==
    IF m = 1 THEN 0 ELSE DaysBeforeMonth(m - 1, y) + DaysIn(m - 1, y)

\* time.Date(y, m, d, h, mi, s, ms, UTC)
Date(y, m, d, h, mi, s, ms) ==
    [d  |-> DaysBeforeYear(y) + DaysBeforeMonth(m, y) + (d - 1),
     ms |-> ((h * 60 + mi) * 60 + s) * 1000 + ms]

\* time.Parse("2006-01-02T15:04:05.000Z", s): four-digit year, two-digit
\* month, day, hour, minute and second, a fraction of exactly three digits,
\* the literal Z, nothing after it; then the range checks.  (The fraction's
\* separator may be a comma as well as a period.)
Parse(s) ==
    LET shape ==
            /\ Len(s) = 24
            /\ \A i \in {1, 2, 3, 4, 6, 7, 9, 10, 12, 13, 15, 16, 18, 19,
                         21, 22, 23} : s[i] \in Digits
            /\ s[5] = "-" /\ s[8] = "-" /\ s[11] = "T"
            /\ s[14] = ":" /\ s[17] = ":"
            /\ s[20] \in {".", ","} /\ s[24] = "Z"
        year  == Num(s, 1, 4)
        month == Num(s, 6, 2)
        day   == Num(s, 9, 2)
        hour  == Num(s, 12, 2)
        min   == Num(s, 15, 2)
        sec   == Num(s, 18, 2)
        msec  == Num(s, 21, 3)
    IN  IF /\ shape
           /\ month \in 1..12
           /\ hour < 24 /\ min < 60 /\ sec < 60
           /\ day >= 1 /\ day <= DaysIn(month, year)
        THEN [ok |-> TRUE, t |-> Date(year, month, day, hour, min, sec, msec)]
        ELSE [ok |-> FALSE, t |-> Date(1, 1, 1, 0, 0, 0, 0)]

\* A Duration is [days, ms] with 0 <= ms < MsPerDay, standing for
\* days * MsPerDay + ms milliseconds.  time.Duration is an int64 count of
\* nanoseconds: the largest is 106751 days and 85636854.775807 ms.
MaxDurDays == 106751
MaxDurMs == 85636854

maxDuration == [days |-> MaxDurDays, ms |-> MaxDurMs]
minDuration == [days |-> -(MaxDurDays + 1), ms |-> MsPerDay - (MaxDurMs + 1)]

\* t.Sub(u): the difference, saturated at the largest and smallest Duration.
Sub(t, u) ==
    LET dd  == t.d - u.d
        dms == t.ms - u.ms
        q   == IF dms < 0 THEN dd - 1 ELSE dd
        r   == IF dms < 0 THEN dms + MsPerDay ELSE dms
    IN  IF q > maxDuration.days \/ (q = maxDuration.days /\ r > maxDuration.ms)
        THEN maxDuration
        ELSE IF q < minDuration.days
                  \/ (q = minDuration.days /\ r <= minDuration.ms)
        THEN minDuration
        ELSE [days |-> q, ms |-> r]

\* A variant of AgeDays that rounds toward minus infinity.
AgeDaysFloor(date, t) == Sub(date, t).days

\* int(diff.Hours() / 24) with diff := date.Sub(t): the conversion of a
\* float to int drops the fraction, that is, rounds toward zero.
AgeDays(date, t) ==
    LET diff == Sub(date, t)
    IN  IF diff.days >= 0 \/ diff.ms = 0 THEN diff.days ELSE diff.days + 1

\* The wall clock's reading number k: 2024-01-11T00:00:00.000Z and then
\* every twelve hours.
NowAt(k) ==
    LET t0 == Date(2024, 1, 11, 0, 0, 0, 0)
    IN  [d |-> t0.d + (k \div 2), ms |-> (k % 2) * (MsPerDay \div 2)]

-----------------------------------------------------------------------------
(* The provider *)

\* Instances the accounts may hold, as DescribeInstances describes them.
I1 == [InstanceId |-> "i-1", Tags |-> <<>>,
       ImageId |-> "ami-a", State |-> "running"]
I2 == [InstanceId |-> "i-2",
       Tags |-> <<[Key |-> "Name", Value |-> "a"],
                  [Key |-> "env", Value |-> "x"],
                  [Key |-> "Name", Value |-> "b"]>>,
       ImageId |-> "ami-b", State |-> "pending"]
I3 == [InstanceId |-> "i-3", Tags |-> <<[Key |-> "name", Value |-> "low"]>>,
       ImageId |-> "ami-c", State |-> "running"]
I4 == [InstanceId |-> "i-4", Tags |-> <<[Key |-> "Name", Value |-> "db"]>>,
       ImageId |-> "ami-a", State |-> "stopped"]
I5 == [InstanceId |-> "i-5", Tags |-> <<[Key |-> "Name", Value |-> "web"]>>,
       ImageId |-> "ami-d", State |-> "running"]

InstancePool == {I1, I2, I3, I4, I5}
RolePool == {I1, I3}

Amis == {"ami-a", "ami-b", "ami-c", "ami-d"}

\* The images the provider holds for an image id, as creation dates.
ImagesOf(id) ==
    CASE id = "ami-a" -> <<DateJan01>>
      [] id = "ami-b" -> <<DateFuture, DateJan01>>
      [] id = "ami-c" -> <<DateNoMillis>>
      [] id = "ami-d" -> <<DateOld>>

\* What one DescribeImages call for id can answer: an API error, no image,
\* or the images.
Replies(id) ==
    {[err |-> TRUE, Images |-> <<>>],
     [err |-> FALSE, Images |-> <<>>],
     [err |-> FALSE, Images |-> ImagesOf(id)]}

SeqsUpTo(S, n) == UNION {[1..k -> S] : k \in 0..n}

\* The ways to cut a list of instances into reservations.
RECURSIVE Splits(_)
Splits(f) ==
    IF f = <<>> THEN {<<>>}
    ELSE UNION {{<<SubSeq(f, 1, k)>> \o rest :
                    rest \in Splits(SubSeq(f, k + 1, Len(f)))} :
                k \in 1..Len(f)}

\* What a successful DescribeInstances call can answer: reservations.  The
\* provider is free to answer with instances of any state, whatever filter
\* the request carries.  Without a role list the response is any list of
\* reservations over InstancePool; for a role it is empty or one reservation
\* over RolePool.
Responses(mode) ==
    IF mode = "single"
    THEN UNION {Splits(f) : f \in SeqsUpTo(InstancePool, MaxInst)}
    ELSE {IF f = <<>> THEN <<>> ELSE <<f>> :
            f \in SeqsUpTo(RolePool, MaxRoleInst)}

\* The last clock reading a run of the given mode sees: the clock moves
\* during a run without a role list and stands still during one with.
LastTick(mode) == IF mode = "single" THEN MaxTick ELSE 0

-----------------------------------------------------------------------------
(* amiCreation and the body of Sync's loop *)

\* A variant of amiCreation that never consults the cache.
amiCreationNoLookup(c, id, reply) ==
    IF reply.err
    THEN [val |-> <<>>, err |-> "api", cache |-> c, queried |-> TRUE]
    ELSE IF Len(reply.Images) > 0
    THEN [val |-> reply.Images[1], err |-> "nil",
          cache |-> [k \in DOMAIN c \cup {id} |->
                        IF k = id THEN reply.Images[1] ELSE c[k]],
          queried |-> TRUE]
    ELSE [val |-> <<>>, err |-> "nodate", cache |-> c, queried |-> TRUE]

\* A variant of amiCreation that also caches the empty string when the
\* provider returns no image.
amiCreationCacheEmpty(c, id, reply) ==
    IF id \in DOMAIN c
    THEN [val |-> c[id], err |-> "nil", cache |-> c, queried |-> FALSE]
    ELSE IF reply.err
    THEN [val |-> <<>>, err |-> "api", cache |-> c, queried |-> TRUE]
    ELSE IF Len(reply.Images) > 0
    THEN [val |-> reply.Images[1], err |-> "nil",
          cache |-> [k \in DOMAIN c \cup {id} |->
                        IF k = id THEN reply.Images[1] ELSE c[k]],
          queried |-> TRUE]
    ELSE [val |-> <<>>, err |-> "nodate",
          cache |-> [k \in DOMAIN c \cup {id} |->
                        IF k = id THEN <<>> ELSE c[k]],
          queried |-> TRUE]

\* A variant of amiCreation that caches a date only when it parses.
amiCreationCacheParsed(c, id, reply) ==
    IF id \in DOMAIN c
    THEN [val |-> c[id], err |-> "nil", cache |-> c, queried |-> FALSE]
    ELSE IF reply.err
    THEN [val |-> <<>>, err |-> "api", cache |-> c, queried |-> TRUE]
    ELSE IF Len(reply.Images) > 0
    THEN [val |-> reply.Images[1], err |-> "nil",
          cache |-> IF Parse(reply.Images[1]).ok
                    THEN [k \in DOMAIN c \cup {id} |->
                            IF k = id THEN reply.Images[1] ELSE c[k]]
                    ELSE c,
          queried |-> TRUE]
    ELSE [val |-> <<>>, err |-> "nodate", cache |-> c, queried |-> TRUE]

\* amiCreation(svc, id) with the cache c; reply is the provider's answer to
\* the DescribeImages call, read only when the call is made.  The result:
\* the value and error returned, the cache afterwards, and whether the
\* provider was queried.
amiCreation(c, id, reply) ==
    IF id \in DOMAIN c
    THEN [val |-> c[id], err |-> "nil", cache |-> c, queried |-> FALSE]
    ELSE IF reply.err
    THEN [val |-> <<>>, err |-> "api", cache |-> c, queried |-> TRUE]
    ELSE IF Len(reply.Images) > 0
    THEN [val |-> reply.Images[1], err |-> "nil",
          cache |-> [k \in DOMAIN c \cup {id} |->
                        IF k = id THEN reply.Images[1] ELSE c[k]],
          queried |-> TRUE]
    ELSE [val |-> <<>>, err |-> "nodate", cache |-> c, queried |-> TRUE]

\* A variant of DisplayName in which the first "Name" tag wins.
RECURSIVE NameScanFirst(_, _, _)
NameScanFirst(tags, i, name) ==
    IF i > Len(tags) THEN name
    ELSE IF tags[i].Key = "Name" THEN tags[i].Value
    ELSE NameScanFirst(tags, i + 1, name)

DisplayNameFirst(inst) == NameScanFirst(inst.Tags, 1, inst.InstanceId)

\* The loop over instance.Tags from index i on, with name so far.
RECURSIVE NameScan(_, _, _)
NameScan(tags, i, name) ==
    IF i > Len(tags) THEN name
    ELSE NameScan(tags, i + 1,
                  IF tags[i].Key = "Name" THEN tags[i].Value ELSE name)

\* The name Sync shows for an instance.
DisplayName(inst) == NameScan(inst.Tags, 1, inst.InstanceId)

\* A variant of the filter that also asks for stopped instances.
FilterValuesWide == {"running", "pending", "stopped"}

\* The values of the instance-state-name filter Sync sends.
FilterValues == {"running", "pending"}

\* A variant of Instances that walks the reservations backwards.
RECURSIVE InstancesReversed(_)
InstancesReversed(reservations) ==
    IF reservations = <<>> THEN <<>>
    ELSE InstancesReversed(Tail(reservations)) \o Head(reservations)

\* The order in which Sync's two nested loops visit the instances.
RECURSIVE Instances(_)
Instances(reservations) ==
    IF reservations = <<>> THEN <<>>
    ELSE Head(reservations) \o Instances(Tail(reservations))

\* A variant of SyncInstance that skips an instance whose image cannot be
\* resolved and goes on with the next.
SyncInstanceSkip(c, account, inst, reply, date) ==
    LET r == amiCreation(c, inst.ImageId, reply)
        p == Parse(r.val)
    IN  IF r.err # "nil"
        THEN [ami |-> r, err |-> "nil", line |-> <<>>]
        ELSE IF ~p.ok
        THEN [ami |-> r, err |-> "parse", line |-> <<>>]
        ELSE [ami |-> r, err |-> "nil",
              line |-> <<[acct |-> account, id |-> inst.InstanceId,
                          name |-> DisplayName(inst), ami |-> inst.ImageId,
                          age |-> AgeDays(date, p.t)]>>]

\* One round of Sync's loop, for instance inst of account `account`, with
\* the cache c, the provider's reply to a DescribeImages call and the
\* clock's reading: amiCreation's result, the error Sync returns ("nil" to
\* go on) and the line printed, if any.
SyncInstance(c, account, inst, reply, date) ==
    LET r == amiCreation(c, inst.ImageId, reply)
        p == Parse(r.val)
    IN  IF r.err # "nil"
        THEN [ami |-> r, err |-> "image", line |-> <<>>]
        ELSE IF ~p.ok
        THEN [ami |-> r, err |-> "parse", line |-> <<>>]
        ELSE [ami |-> r, err |-> "nil",
              line |-> <<[acct |-> account, id |-> inst.InstanceId,
                          name |-> DisplayName(inst), ami |-> inst.ImageId,
                          age |-> AgeDays(date, p.t)]>>]

\* strings.HasPrefix(role, "#")
IsComment(role) == HasPrefix(role, <<"#">>)

\* data := strings.Split(role, ":")
Fields(role) == Split(role, ":")

\* A variant of RoleAccount that takes the fourth field.
RoleAccountFourth(role) == Fields(role)[4]

\* acct := data[4], the fifth field
RoleAccount(role) == Fields(role)[5]

\* Whether data[4] exists; indexing past the end of data panics.
HasField4(role) == Len(Fields(role)) >= 5

\* The account GetCallerIdentity reports for the default credentials.
OwnAccount == <<"7">>

\* The role files: the lines the scanner delivers.
Lines == {LineComment, LineRoleA, LineRoleB, LineBlank}

-----------------------------------------------------------------------------
(* The run *)

VARIABLES
    mode,          \* "single": no -roles flag; "roles": a role file is given
    file,          \* the lines of the role file, as the scanner delivers them
    pc,            \* where main is: "start", "scan", "list", "loop", "ret",
                   \* and at the end "done", "abort" or "panic"
    ln,            \* lines of the role file read so far
    acct,          \* Sync's parameter acct
    reservations,  \* result.Reservations of the running Sync
    pos,           \* instances the running Sync has finished with
    err,           \* what Sync returns
    cache,         \* the cache: image id -> creation date
    tick,          \* the number of the clock's latest reading
    out,           \* standard output: lines and diagnostics, in order
    calls,         \* history: DescribeImages calls issued, per image id
    syncs,         \* history: the invocations of Sync
    res            \* history: the invocations of amiCreation

vars == <<mode, file, pc, ln, acct, reservations, pos, err, cache, tick,
          out, calls, syncs, res>>

Diag(what) == [kind |-> "diag", what |-> what]

Init ==
    /\ mode \in {"single", "roles"}
    /\ file \in (IF mode = "roles" THEN SeqsUpTo(Lines, MaxLines) ELSE {<<>>})
    /\ pc = "start"
    /\ ln = 0
    /\ acct = <<>>
    /\ reservations = <<>>
    /\ pos = 0
    /\ err = "nil"
    /\ cache = <<>>
    /\ tick = 0
    /\ out = <<>>
    /\ calls = [a \in Amis |-> 0]
    /\ syncs = <<>>
    /\ res = <<>>

\* session.NewSession fails: a diagnostic, and main returns.
LoginFail ==
    /\ pc = "start"
    /\ out' = Append(out, Diag("login"))
    /\ pc' = "abort"
    /\ UNCHANGED <<mode, file, ln, acct, reservations, pos, err, cache, tick,
                   calls, syncs, res>>

\* GetCallerIdentity fails: a diagnostic, and main returns.
IdentityFail ==
    /\ pc = "start"
    /\ out' = Append(out, Diag("identity"))
    /\ pc' = "abort"
    /\ UNCHANGED <<mode, file, ln, acct, reservations, pos, err, cache, tick,
                   calls, syncs, res>>

\* No role list: Sync is called for the caller's own account.
StartSingle ==
    /\ pc = "start"
    /\ mode = "single"
    /\ acct' = OwnAccount
    /\ pc' = "list"
    /\ UNCHANGED <<mode, file, ln, reservations, pos, err, cache, tick, out,
                   calls, syncs, res>>

\* os.Open of the role file fails: a diagnostic, and main returns.
OpenFail ==
    /\ pc = "start"
    /\ mode = "roles"
    /\ out' = Append(out, Diag("open"))
    /\ pc' = "abort"
    /\ UNCHANGED <<mode, file, ln, acct, reservations, pos, err, cache, tick,
                   calls, syncs, res>>

\* The role file is open: the loop over its lines begins.
OpenOk ==
    /\ pc = "start"
    /\ mode = "roles"
    /\ pc' = "scan"
    /\ UNCHANGED <<mode, file, ln, acct, reservations, pos, err, cache, tick,
                   out, calls, syncs, res>>

\* The next line is a comment: continue.
SkipComment ==
    /\ pc = "scan"
    /\ ln < Len(file)
    /\ IsComment(file[ln + 1])
    /\ ln' = ln + 1
    /\ UNCHANGED <<mode, file, pc, acct, reservations, pos, err, cache, tick,
                   out, calls, syncs, res>>

\* The next line has fewer than five fields: data[4] panics (index out of
\* range) and the process ends.
Panic ==
    /\ pc = "scan"
    /\ ln < Len(file)
    /\ ~IsComment(file[ln + 1])
    /\ ~HasField4(file[ln + 1])
    /\ ln' = ln + 1
    /\ pc' = "panic"
    /\ UNCHANGED <<mode, file, acct, reservations, pos, err, cache, tick, out,
                   calls, syncs, res>>

\* The next line is taken for a role: Sync is called with its fifth field.
CallSync ==
    /\ pc = "scan"
    /\ ln < Len(file)
    /\ ~IsComment(file[ln + 1])
    /\ HasField4(file[ln + 1])
    /\ ln' = ln + 1
    /\ acct' = RoleAccount(file[ln + 1])
    /\ pc' = "list"
    /\ UNCHANGED <<mode, file, reservations, pos, err, cache, tick, out,
                   calls, syncs, res>>

\* scanner.Scan returns false at the end of the file: main returns.
ScanEof ==
    /\ pc = "scan"
    /\ ln = Len(file)
    /\ pc' = "done"
    /\ UNCHANGED <<mode, file, ln, acct, reservations, pos, err, cache, tick,
                   out, calls, syncs, res>>

\* scanner.Scan returns false on a read error after the lines delivered:
\* a diagnostic, and main returns.
ScanError ==
    /\ pc = "scan"
    /\ ln = Len(file)
    /\ out' = Append(out, Diag("scan"))
    /\ pc' = "done"
    /\ UNCHANGED <<mode, file, ln, acct, reservations, pos, err, cache, tick,
                   calls, syncs, res>>

\* Sync: DescribeInstances fails, Sync returns the error.
ListFail ==
    /\ pc = "list"
    /\ syncs' = Append(syncs, [line |-> ln, acct |-> acct,
                               filter |-> FilterValues, listed |-> <<>>,
                               listok |-> FALSE, res |-> "list",
                               failAt |-> 0])
    /\ err' = "list"
    /\ pc' = "ret"
    /\ UNCHANGED <<mode, file, ln, acct, reservations, pos, cache, tick, out,
                   calls, res>>

\* Sync: DescribeInstances answers with reservations.
ListOk ==
    /\ pc = "list"
    /\ \E r \in Responses(mode) :
          /\ reservations' = r
          /\ syncs' = Append(syncs, [line |-> ln, acct |-> acct,
                                     filter |-> FilterValues, listed |-> r,
                                     listok |-> TRUE, res |-> "run",
                                     failAt |-> 0])
    /\ pos' = 0
    /\ pc' = "loop"
    /\ UNCHANGED <<mode, file, ln, acct, err, cache, tick, out, calls, res>>

\* Sync: one round of the loop, for the next instance.
SyncNext ==
    /\ pc = "loop"
    /\ pos < Len(Instances(reservations))
    /\ LET inst == Instances(reservations)[pos + 1]
       IN  \E reply \in Replies(inst.ImageId), k \in tick..LastTick(mode) :
              LET o == SyncInstance(cache, acct, inst, reply, NowAt(k))
              IN  /\ cache' = o.ami.cache
                  /\ calls' = IF o.ami.queried
                              THEN [calls EXCEPT ![inst.ImageId] = @ + 1]
                              ELSE calls
                  /\ res' = Append(res,
                                [sync |-> Len(syncs), k |-> pos + 1,
                                 id |-> inst.ImageId, val |-> o.ami.val,
                                 err |-> o.ami.err,
                                 queried |-> o.ami.queried,
                                 reply |-> IF o.ami.queried THEN reply
                                           ELSE [err |-> FALSE,
                                                 Images |-> <<>>]])
                  /\ out' = out \o
                        [i \in 1..Len(o.line) |->
                            [kind |-> "line", sync |-> Len(syncs),
                             k |-> pos + 1, at |-> k,
                             acct |-> o.line[i].acct, id |-> o.line[i].id,
                             name |-> o.line[i].name, ami |-> o.line[i].ami,
                             age |-> o.line[i].age]]
                  /\ tick' = IF o.line # <<>> THEN k ELSE tick
                  /\ IF o.err = "nil"
                     THEN /\ pos' = pos + 1
                          /\ UNCHANGED <<pc, err, syncs>>
                     ELSE /\ err' = o.err
                          /\ pc' = "ret"
                          /\ syncs' = [syncs EXCEPT
                                         ![Len(syncs)].res = o.err,
                                         ![Len(syncs)].failAt = pos + 1]
                          /\ UNCHANGED pos
    /\ UNCHANGED <<mode, file, ln, acct, reservations>>

\* Sync: the loops are over, Sync returns nil.
SyncEnd ==
    /\ pc = "loop"
    /\ pos = Len(Instances(reservations))
    /\ err' = "nil"
    /\ pc' = "ret"
    /\ syncs' = [syncs EXCEPT ![Len(syncs)].res = "ok"]
    /\ UNCHANGED <<mode, file, ln, acct, reservations, pos, cache, tick, out,
                   calls, res>>

\* No role list: an error of Sync is reported, and main returns.
RetSingle ==
    /\ pc = "ret"
    /\ mode = "single"
    /\ out' = IF err # "nil" THEN Append(out, Diag("sync")) ELSE out
    /\ pc' = "done"
    /\ UNCHANGED <<mode, file, ln, acct, reservations, pos, err, cache, tick,
                   calls, syncs, res>>

\* Role list: an error of Sync is reported, and the loop goes on.
RetRole ==
    /\ pc = "ret"
    /\ mode = "roles"
    /\ out' = IF err # "nil" THEN Append(out, Diag("role")) ELSE out
    /\ pc' = "scan"
    /\ UNCHANGED <<mode, file, ln, acct, reservations, pos, err, cache, tick,
                   calls, syncs, res>>

Next ==
    \/ LoginFail
    \/ IdentityFail
    \/ StartSingle
    \/ OpenFail
    \/ OpenOk
    \/ SkipComment
    \/ Panic
    \/ CallSync
    \/ ScanEof
    \/ ScanError
    \/ ListFail
    \/ ListOk
    \/ SyncNext
    \/ SyncEnd
    \/ RetSingle
    \/ RetRole

Spec == Init /\ [][Next]_vars

-----------------------------------------------------------------------------
(* Reading the histories *)

\* The instances in reservations 1..(r - 1) of a response.
RECURSIVE Before(_, _)
Before(rs, r) == IF r <= 1 THEN 0 ELSE Before(rs, r - 1) + Len(rs[r - 1])

\* The number of instances in a response.
Count(rs) == Before(rs, Len(rs) + 1)

\* The n-th instance of a response in the provider's order: reservation by
\* reservation, instance by instance.
ListedAt(rs, n) ==
    LET r == CHOOSE q \in 1..Len(rs) :
                Before(rs, q) < n /\ n <= Before(rs, q) + Len(rs[q])
    IN  rs[r][n - Before(rs, r)]

\* The positions of the instance lines in the output.
LinesOut == {j \in DOMAIN out : out[j].kind = "line"}

\* The instance a line was printed for.
InstOf(l) == ListedAt(syncs[l.sync].listed, l.k)

\* The invocation of amiCreation made for a line.
ResOf(l) == res[CHOOSE i \in DOMAIN res : res[i].sync = l.sync /\ res[i].k = l.k]

\* The lines one invocation of Sync printed, in order.
LinesOf(s) == SelectSeq(out, LAMBDA o : o.kind = "line" /\ o.sync = s)

Ended == pc \in {"done", "panic"}

AtOrBefore(a, b) == a.d < b.d \/ (a.d = b.d /\ a.ms <= b.ms)
Earlier(a, b) == a.d < b.d \/ (a.d = b.d /\ a.ms < b.ms)
Plus(a, n) == [d |-> a.d + n, ms |-> a.ms]

-----------------------------------------------------------------------------
(* C1 *)

\* C1, as stated: for every image identifier the DescribeImages lookup is
\* issued at most once in a run.
C1_QueriedAtMostOnce == \A a \in Amis : calls[a] <= 1

\* C1, amended: a lookup is issued once for every resolution of an image
\* that fails and once for the first that succeeds, so at most one lookup
\* per image succeeds; every resolution after a successful one issues no
\* provider call and returns the identical timestamp.
C1_ResolvedOnce ==
    /\ \A a \in Amis :
          LET failed == {i \in DOMAIN res : res[i].id = a /\ res[i].err # "nil"}
              found  == {i \in DOMAIN res :
                            res[i].id = a /\ res[i].err = "nil" /\ res[i].queried}
          IN  /\ Cardinality(found) <= 1
              /\ calls[a] = Cardinality(failed) + Cardinality(found)
    /\ \A i, j \in DOMAIN res :
          (i < j /\ res[i].id = res[j].id /\ res[i].err = "nil")
              => /\ ~res[j].queried
                 /\ res[j].err = "nil"
                 /\ res[j].val = res[i].val

\* An image resolved in one account is resolved again in a later one.
C1_Witness ==
    \E i, j \in DOMAIN res :
        /\ i < j /\ res[i].id = res[j].id /\ res[i].sync < res[j].sync
        /\ res[i].err = "nil" /\ res[i].queried

-----------------------------------------------------------------------------
(* C2 *)

\* C2: amiCreation changes the cache only when the provider query succeeds
\* with at least one image, and then adds exactly id -> creation date of the
\* first image; when the query fails or returns no image it returns an error
\* and leaves the cache as it was.  Nothing else changes the cache.
C2_CacheFrame ==
    [][IF Len(res') = Len(res)
       THEN cache' = cache
       ELSE LET e == res'[Len(res')]
            IN  IF e.queried /\ ~e.reply.err /\ Len(e.reply.Images) > 0
                THEN /\ e.err = "nil"
                     /\ e.id \notin DOMAIN cache
                     /\ DOMAIN cache' = DOMAIN cache \cup {e.id}
                     /\ cache'[e.id] = e.reply.Images[1]
                     /\ \A k \in DOMAIN cache : cache'[k] = cache[k]
                ELSE /\ cache' = cache
                     /\ e.queried => e.err \in {"api", "nodate"}]_vars

\* A query that returned no image, made while the cache holds an entry.
C2_Witness ==
    /\ res # <<>>
    /\ res[Len(res)].queried
    /\ res[Len(res)].err = "nodate"
    /\ DOMAIN cache # {}

-----------------------------------------------------------------------------
(* C3 *)

\* C3: when amiCreation returns an error for an instance, Sync returns an
\* error at once: no line is printed for that instance or for any after it
\* in the listing, no later instance is looked at, and the lines of the
\* instances before it are in the output.
C3_ImageFailureAborts ==
    \A i \in DOMAIN res :
        res[i].err # "nil" =>
            LET s == res[i].sync
                k == res[i].k
            IN  /\ syncs[s].res = "image"
                /\ syncs[s].failAt = k
                /\ s = Len(syncs) => (pc # "loop" /\ err = "image")
                /\ ~\E j \in LinesOut : out[j].sync = s /\ out[j].k >= k
                /\ ~\E j \in DOMAIN res : res[j].sync = s /\ res[j].k > k
                /\ \A n \in 1..(k - 1) :
                      \E j \in LinesOut : out[j].sync = s /\ out[j].k = n

\* The image of the first of two listed instances could not be resolved.
C3_Witness ==
    \E i \in DOMAIN res :
        /\ res[i].err # "nil"
        /\ res[i].k = 1
        /\ Count(syncs[res[i].sync].listed) = 2
        /\ pc = "done"

-----------------------------------------------------------------------------
(* C4 *)

\* C4, as stated: when Sync returns an error for a role, every role listed
\* after it in the file is still attempted.
C4_LaterRolesAttempted ==
    Ended =>
        \A s \in DOMAIN syncs :
            syncs[s].res \in {"list", "image", "parse"} =>
                \A j \in (syncs[s].line + 1)..Len(file) :
                    ~HasPrefix(file[j], <<"#">>) =>
                        \E s2 \in DOMAIN syncs : syncs[s2].line = j

-----------------------------------------------------------------------------
(* C5 *)

-----------------------------------------------------------------------------
(* C6 *)

\* C6, as stated: the invocations of Sync correspond one to one, in order,
\* to the lines of the role file that do not begin with '#', whatever their
\* content, each with the account taken from the line's fifth field.
C6_OneSyncPerLine ==
    (mode = "roles" /\ Ended) =>
        LET roles == SelectSeq([j \in 1..Len(file) |-> j],
                               LAMBDA j : ~HasPrefix(file[j], <<"#">>))
        IN  /\ [s \in 1..Len(syncs) |-> syncs[s].line] = roles
            /\ \A s \in DOMAIN syncs :
                  syncs[s].acct = Split(file[syncs[s].line], ":")[5]

-----------------------------------------------------------------------------
(* C7 *)

\* C7: the name printed for an instance is its identifier when no tag has
\* the key "Name", and otherwise the value of the last tag whose key is
\* exactly "Name".
C7_DisplayName ==
    \A j \in LinesOut :
        LET tags  == InstOf(out[j]).Tags
            named == {i \in 1..Len(tags) : tags[i].Key = "Name"}
        IN  IF named = {}
            THEN out[j].name = InstOf(out[j]).InstanceId
            ELSE LET last == CHOOSE i \in named : \A n \in named : n <= i
                 IN  out[j].name = tags[last].Value

\* A line for an instance with two "Name" tags of different values.
C7_Witness ==
    \E j \in LinesOut :
        LET tags  == InstOf(out[j]).Tags
            named == {i \in 1..Len(tags) : tags[i].Key = "Name"}
        IN  \E a, b \in named : a < b /\ tags[a].Value # tags[b].Value

-----------------------------------------------------------------------------
(* C8 *)

\* age = floor((now - created) / one day)
IsFloor(age, created, now) ==
    AtOrBefore(Plus(created, age), now) /\ Earlier(now, Plus(created, age + 1))

\* C8, as stated: the age printed is floor(h / 24) days for every pair of
\* creation time and current time.
C8_AgeIsFloor ==
    \A j \in LinesOut :
        IsFloor(out[j].age, Parse(ResOf(out[j]).val).t, NowAt(out[j].at))

\* C8, amended: the age printed is h / 24 rounded toward zero, with the
\* difference of the two times saturated near 292 years: floor(h / 24) when
\* the creation time is not after the current time and less than 106752
\* days before it, -floor(-h / 24) when it is after it by less than 106752
\* days, and 106751 or -106751 beyond that.
C8_AgeTruncates ==
    \A j \in LinesOut :
        LET created == Parse(ResOf(out[j]).val).t
            now     == NowAt(out[j].at)
            age     == out[j].age
        IN  /\ Parse(ResOf(out[j]).val).ok
            /\ IF AtOrBefore(created, now)
               THEN IF Earlier(now, Plus(created, 106752))
                    THEN IsFloor(age, created, now)
                    ELSE age = 106751
               ELSE IF Earlier(created, Plus(now, 106752))
                    THEN IsFloor(-age, now, created)
                    ELSE age = -106751

\* Ten days for the image of 2024-01-01 on 2024-01-11, and -1 for an image
\* created a day and a half after the current time.
C8_Witness ==
    /\ \E j \in LinesOut :
          /\ ResOf(out[j]).val = DateJan01 /\ out[j].at = 0 /\ out[j].age = 10
    /\ \E j \in LinesOut :
          /\ ResOf(out[j]).val = DateFuture /\ out[j].at = 0 /\ out[j].age = -1

-----------------------------------------------------------------------------
(* C9 *)

\* C9: Sync returns success exactly when it has printed one line for every
\* instance listed, in the provider's order; when it returns an error the
\* lines printed are those of the instances before the first failing one, in
\* that order, and none when the listing call failed.
C9_SyncResult ==
    /\ pc = "ret" => (err = "nil" <=> syncs[Len(syncs)].res = "ok")
    /\ \A s \in DOMAIN syncs :
          syncs[s].res # "run" =>
              LET mine == LinesOf(s)
                  n    == Count(syncs[s].listed)
                  m    == IF syncs[s].res = "ok" THEN n
                          ELSE IF syncs[s].res = "list" THEN 0
                          ELSE syncs[s].failAt - 1
              IN  /\ Len(mine) = m
                  /\ \A i \in 1..m :
                        /\ mine[i].k = i
                        /\ mine[i].acct = syncs[s].acct
                        /\ mine[i].id = ListedAt(syncs[s].listed, i).InstanceId
                        /\ mine[i].ami = ListedAt(syncs[s].listed, i).ImageId
                  /\ syncs[s].res = "ok" <=> (syncs[s].listok /\ Len(mine) = n)
                  /\ syncs[s].res = "list" <=> ~syncs[s].listok
                  /\ syncs[s].res \in {"image", "parse"} =>
                        /\ syncs[s].failAt \in 1..n
                        /\ \E i \in DOMAIN res :
                              /\ res[i].sync = s /\ res[i].k = syncs[s].failAt
                              /\ res[i].err # "nil" \/ ~Parse(res[i].val).ok
                        /\ \A i \in DOMAIN res :
                              (res[i].sync = s /\ res[i].k < syncs[s].failAt)
                                  => res[i].err = "nil" /\ Parse(res[i].val).ok

\* A Sync that returned success after two reservations of one instance each.
C9_Witness ==
    \E s \in DOMAIN syncs :
        /\ syncs[s].res = "ok"
        /\ Len(syncs[s].listed) = 2
        /\ syncs[s].listed[1] # syncs[s].listed[2]
        /\ pc = "ret"

-----------------------------------------------------------------------------
(* C10 *)

\* C10: a creation date that does not match the timestamp format is cached
\* all the same; the Sync that met it fails with the parse error, and so does
\* every later Sync at an instance of that image, without a new lookup.
C10_BadDateStaysCached ==
    \A i \in DOMAIN res :
        (res[i].err = "nil" /\ ~Parse(res[i].val).ok) =>
            /\ res[i].id \in DOMAIN cache
            /\ cache[res[i].id] = res[i].val
            /\ syncs[res[i].sync].res = "parse"
            /\ syncs[res[i].sync].failAt = res[i].k
            /\ ~\E j \in LinesOut :
                  out[j].sync = res[i].sync /\ out[j].k >= res[i].k
            /\ \A j \in DOMAIN res :
                  (i < j /\ res[j].id = res[i].id)
                      => /\ ~res[j].queried
                         /\ res[j].err = "nil"
                         /\ res[j].val = res[i].val

\* An image with a malformed date met in two accounts of one run.
C10_Witness ==
    \E i, j \in DOMAIN res :
        /\ i < j /\ res[i].id = res[j].id /\ res[i].sync < res[j].sync
        /\ res[i].err = "nil" /\ ~Parse(res[i].val).ok
        /\ syncs[res[j].sync].res = "parse"

====
